---- MODULE Spec2Model ----
(***************************************************************************)
(* Model of the image API worker (src/src/index.js): the request router,   *)
(* the bearer-token check, the upload / delete / purge handlers over the   *)
(* MEDIA_BUCKET object store and the image-serving handler.                *)
(*                                                                         *)
(* Strings whose characters the code inspects (Authorization values,       *)
(* storage keys, base64 text, content types, URLs) are sequences of code   *)
(* points.  Strings the code only compares as a whole or only emits        *)
(* (method, pathname, fixed response texts) are TLA+ strings.              *)
(***************************************************************************)
EXTENDS Integers, Sequences, FiniteSets, TLC

VARIABLES
    store,      \* MEDIA_BUCKET: key -> object (or NoObject)
    req,        \* the request last handled
    handler,    \* the handler the router chose for it
    resp,       \* the response returned (NoResponse when the handler threw)
    outcome,    \* "idle" | "response" | "exception"
    calls,      \* the outbound calls the handler issued, in order
    upstream,   \* what the outbound fetch answered (NoAnswer when none was made)
    vpInput,    \* input handed to isValidPath (path-validator specification)
    vpResult    \* "none" | "true" | "false"

vars == <<store, req, handler, resp, outcome, calls, upstream, vpInput, vpResult>>

-----------------------------------------------------------------------------
(* JavaScript values, as far as the handlers distinguish them.              *)

Undefined == [t |-> "undefined", s |-> <<>>, n |-> 0]
Null == [t |-> "null", s |-> <<>>, n |-> 0]
Str(s) == [t |-> "string", s |-> s, n |-> 0]
Num(n) == [t |-> "number", s |-> <<>>, n |-> n]

\* ToBoolean, as applied by !x.
Truthy(v) ==
    CASE v.t = "string" -> v.s # <<>>
      [] v.t = "number" -> v.n # 0
      [] OTHER -> FALSE

\* String.prototype.startsWith
StartsWith(s, prefix) ==
    /\ Len(s) >= Len(prefix)
    /\ SubSeq(s, 1, Len(prefix)) = prefix

\* String.prototype.substring(k) (k is a 0-based index)
Substring(s, k) == SubSeq(s, k + 1, Len(s))

\* String.prototype.includes for a two-character needle
Includes2(s, c1, c2) ==
    \E i \in 1..(Len(s) - 1) : s[i] = c1 /\ s[i + 1] = c2

-----------------------------------------------------------------------------
(* Path Validator.  src/src/index.js does not define isValidPath (the test *)
(* suite imports it); the rules are those of the specification, 4.1.       *)

\* Faulty variant: control characters are let through.
isValidPathMissingControl(p) ==
    /\ p.t = "string"
    /\ p.s # <<>>
    /\ p.s[1] \notin {47, 46}
    /\ ~Includes2(p.s, 46, 46)
    /\ ~Includes2(p.s, 47, 47)

isValidPath(p) ==
    /\ p.t = "string"
    /\ p.s # <<>>
    /\ p.s[1] \notin {47, 46}          \* must not start with "/" or "."
    /\ ~Includes2(p.s, 46, 46)         \* no ".."
    /\ ~Includes2(p.s, 47, 47)         \* no "//"
    /\ \A i \in 1..Len(p.s) : p.s[i] >= 32   \* no control character

-----------------------------------------------------------------------------
(* Authenticator.                                                          *)

\* env.IMAGE_API_SECRET: "sk"
IMAGE_API_SECRET == Str(<<115, 107>>)

\* 'Bearer '
BearerPrefix == <<66, 101, 97, 114, 101, 114, 32>>

\* Faulty variant: the token after the prefix is not compared.
isAuthorizedNoTokenCheck(request) ==
    LET authHeader == request.auth IN
    IF ~Truthy(authHeader) \/ ~StartsWith(authHeader.s, BearerPrefix)
    THEN FALSE
    ELSE TRUE

isAuthorized(request) ==
    LET authHeader == request.auth IN
    IF ~Truthy(authHeader) \/ ~StartsWith(authHeader.s, BearerPrefix)
    THEN FALSE
    ELSE LET token == Substring(authHeader.s, 7)
         IN  Str(token) = IMAGE_API_SECRET

-----------------------------------------------------------------------------
(* Base64.  The upload tool encodes the file with Buffer.toString('base64') *)
(* and handleUpload decodes it with atob (forgiving-base64 decode) into a   *)
(* Uint8Array.                                                              *)

\* The character (code point) of a 6-bit value: A-Z a-z 0-9 + /
B64Char(v) ==
    IF v < 26 THEN 65 + v
    ELSE IF v < 52 THEN 71 + v
    ELSE IF v < 62 THEN v - 4
    ELSE IF v = 62 THEN 43 ELSE 47

\* The 6-bit value of a character, -1 for a character outside the alphabet.
B64Value(c) ==
    IF c \in 65..90 THEN c - 65
    ELSE IF c \in 97..122 THEN c - 71
    ELSE IF c \in 48..57 THEN c + 4
    ELSE IF c = 43 THEN 62
    ELSE IF c = 47 THEN 63 ELSE -1

RECURSIVE Base64Encode(_)
Base64Encode(bytes) ==
    IF Len(bytes) = 0 THEN <<>>
    ELSE IF Len(bytes) = 1 THEN
        <<B64Char(bytes[1] \div 4), B64Char((bytes[1] % 4) * 16), 61, 61>>
    ELSE IF Len(bytes) = 2 THEN
        <<B64Char(bytes[1] \div 4),
          B64Char((bytes[1] % 4) * 16 + bytes[2] \div 16),
          B64Char((bytes[2] % 16) * 4), 61>>
    ELSE
        <<B64Char(bytes[1] \div 4),
          B64Char((bytes[1] % 4) * 16 + bytes[2] \div 16),
          B64Char((bytes[2] % 16) * 4 + bytes[3] \div 64),
          B64Char(bytes[3] % 64)>> \o Base64Encode(SubSeq(bytes, 4, Len(bytes)))

IsAsciiWhitespace(c) == c \in {9, 10, 12, 13, 32}

IsNotAsciiWhitespace(c) == ~IsAsciiWhitespace(c)

\* Steps 1-2 of forgiving-base64 decode: drop whitespace, then up to two
\* trailing "=" when the length is a multiple of four.
B64StripPadding(s) ==
    LET d == SelectSeq(s, IsNotAsciiWhitespace)
        n == Len(d)
    IN  IF n % 4 = 0 /\ n >= 2 /\ d[n] = 61 /\ d[n - 1] = 61 THEN SubSeq(d, 1, n - 2)
        ELSE IF n % 4 = 0 /\ n >= 1 /\ d[n] = 61 THEN SubSeq(d, 1, n - 1)
        ELSE d

\* The bytes of a run of 6-bit values; two left-over values give one byte,
\* three give two (the spare low bits are discarded).
RECURSIVE B64Bytes(_)
B64Bytes(v) ==
    IF Len(v) < 2 THEN <<>>
    ELSE IF Len(v) = 2 THEN <<v[1] * 4 + v[2] \div 16>>
    ELSE IF Len(v) = 3 THEN
        <<v[1] * 4 + v[2] \div 16, (v[2] % 16) * 16 + v[3] \div 4>>
    ELSE
        <<v[1] * 4 + v[2] \div 16,
          (v[2] % 16) * 16 + v[3] \div 4,
          (v[3] % 4) * 64 + v[4]>> \o B64Bytes(SubSeq(v, 5, Len(v)))

\* Faulty variant: the last decoded byte is lost.
AtobDropsLastByte(s) ==
    LET d == B64StripPadding(s)
        b == B64Bytes([i \in 1..Len(d) |-> B64Value(d[i])])
    IN  IF Len(d) % 4 = 1 \/ \E i \in 1..Len(d) : B64Value(d[i]) = -1
        THEN [ok |-> FALSE, chars |-> <<>>]
        ELSE [ok |-> TRUE, chars |-> SubSeq(b, 1, Len(b) - 1)]

\* atob(s): ok = FALSE is the InvalidCharacterError it throws; chars are the
\* code units of the binary string it returns.
Atob(s) ==
    LET d == B64StripPadding(s)
    IN  IF Len(d) % 4 = 1 \/ \E i \in 1..Len(d) : B64Value(d[i]) = -1
        THEN [ok |-> FALSE, chars |-> <<>>]
        ELSE [ok |-> TRUE, chars |-> B64Bytes([i \in 1..Len(d) |-> B64Value(d[i])])]

\* Uint8Array.from(str, (c) => c.charCodeAt(0)): each element is stored
\* modulo 2^8.
Uint8ArrayFrom(chars) == [i \in 1..Len(chars) |-> chars[i] % 256]

-----------------------------------------------------------------------------
(* Image options: the query string and the Accept header of an image       *)
(* request mapped to the cf.image options of the outbound fetch.           *)

allowedParams ==
    {"width", "height", "quality", "fit", "dpr", "gravity", "crop", "pad",
     "background", "draw", "rotate", "trim"}

\* The keys an imageOptions object can hold; Undefined stands for no entry.
OptionKeys == allowedParams \cup {"format"}

EmptyImageOptions == [k \in OptionKeys |-> Undefined]

\* The second argument of fetch: none, or { cf: { image: imageOptions } }.
NoOptions == [cf |-> FALSE, image |-> EmptyImageOptions]
CfImage(imageOptions) == [cf |-> TRUE, image |-> imageOptions]

\* The number Infinity (sign 1) or -Infinity (sign -1).
Infinite(sign) == [t |-> "number", s |-> <<73, 110, 102, 105, 110, 105, 116, 121>>, n |-> sign]

IsJsWhitespace(c) == c \in {9, 10, 11, 12, 13, 32, 160}

\* String.prototype.trim, as applied by the string-to-number conversion.
Trim(s) ==
    LET kept == {i \in 1..Len(s) : ~IsJsWhitespace(s[i])}
    IN  IF kept = {} THEN <<>>
        ELSE SubSeq(s, CHOOSE i \in kept : \A j \in kept : i <= j,
                       CHOOSE i \in kept : \A j \in kept : i >= j)

IsDigits(s) == Len(s) > 0 /\ \A i \in 1..Len(s) : s[i] \in 48..57

RECURSIVE DigitsValue(_)
DigitsValue(s) ==
    IF Len(s) = 0 THEN 0
    ELSE 10 * DigitsValue(SubSeq(s, 1, Len(s) - 1)) + (s[Len(s)] - 48)

\* An optional sign taken off a numeric string: <<sign, rest>>.
Signed(s) ==
    IF Len(s) > 0 /\ s[1] = 45 THEN <<-1, SubSeq(s, 2, Len(s))>>
    ELSE IF Len(s) > 0 /\ s[1] = 43 THEN <<1, SubSeq(s, 2, Len(s))>>
    ELSE <<1, s>>

\* Number(value) for a string: surrounding whitespace is dropped; the empty
\* string is 0; a signed run of decimal digits is its value; a signed
\* "Infinity" is infinite; everything else is NaN.  (Fractions, exponents
\* and 0x/0o/0b literals are not covered: no input of the model has them.)
Number(value) ==
    LET d == Trim(value)
        sign == Signed(d)[1]
        rest == Signed(d)[2]
    IN  IF d = <<>> THEN [nan |-> FALSE, num |-> Num(0)]
        ELSE IF IsDigits(rest) THEN [nan |-> FALSE, num |-> Num(sign * DigitsValue(rest))]
        ELSE IF rest = <<73, 110, 102, 105, 110, 105, 116, 121>> THEN [nan |-> FALSE, num |-> Infinite(sign)]
        ELSE [nan |-> TRUE, num |-> Undefined]

\* RegExp.prototype.test for a pattern that is a literal string.
Contains(s, needle) ==
    \E i \in 1..(Len(s) - Len(needle) + 1) : SubSeq(s, i, i + Len(needle) - 1) = needle

\* The loop over searchParams.entries(): each allowed key is set, in order,
\* to Number(value) unless that is NaN, and then to the value itself.
RECURSIVE QueryOptions(_)
QueryOptions(entries) ==
    IF entries = <<>> THEN EmptyImageOptions
    ELSE LET before == QueryOptions(SubSeq(entries, 1, Len(entries) - 1))
             key == entries[Len(entries)].key
             value == entries[Len(entries)].value
             num == Number(value)
         IN  IF key \in allowedParams
             THEN [before EXCEPT ![key] = IF num.nan THEN Str(value) ELSE num.num]
             ELSE before

\* The format negotiated from the Accept header ('' when absent).
NegotiatedFormat(accept) ==
    IF Contains(accept, <<105, 109, 97, 103, 101, 47, 97, 118, 105, 102>>) THEN Str(<<97, 118, 105, 102>>)
    ELSE IF Contains(accept, <<105, 109, 97, 103, 101, 47, 119, 101, 98, 112>>) THEN Str(<<119, 101, 98, 112>>)
    ELSE IF Contains(accept, <<105, 109, 97, 103, 101, 47>>) THEN Str(<<106, 112, 101, 103>>)
    ELSE Str(<<106, 112, 101, 103>>)

\* imageOptions as handleFetchAndTransform builds it.
ImageOptions(request) ==
    LET accept == IF request.accept.t = "string" THEN request.accept.s ELSE <<>>
    IN  [QueryOptions(request.query) EXCEPT !["format"] = NegotiatedFormat(accept)]

-----------------------------------------------------------------------------
(* The object store (env.MEDIA_BUCKET) and the responses.                  *)

NoObject == [present |-> FALSE, body |-> <<>>, contentType |-> <<>>, cacheControl |-> ""]

\* The object written by MEDIA_BUCKET.put(path, buffer, {httpMetadata}).
PutObject(buffer, contentType) ==
    [present |-> TRUE, body |-> buffer, contentType |-> contentType,
     cacheControl |-> "public, max-age=31536000"]

NoResponse ==
    [status |-> 0, text |-> "", contentType |-> "", cacheControl |-> "",
     success |-> "none", path |-> <<>>]

\* new Response(text, { status })
TextResponse(text, status, path) ==
    [status |-> status, text |-> text, contentType |-> "", cacheControl |-> "",
     success |-> "none", path |-> path]

\* new Response(JSON.stringify({ success, ... }), { status, headers: JSON })
JsonResponse(success, text, status, path) ==
    [status |-> status, text |-> text, contentType |-> "application/json",
     cacheControl |-> "", success |-> success, path |-> path]

\* What one handler invocation leaves behind.
Returned(bucket, response, issued) ==
    [store |-> bucket, resp |-> response, outcome |-> "response", calls |-> issued]

Thrown(bucket, issued) ==
    [store |-> bucket, resp |-> NoResponse, outcome |-> "exception", calls |-> issued]

\* One outbound call: a bucket operation on a key, or a fetch of a URL.
Call(op, key, url) == [op |-> op, key |-> key, url |-> url, options |-> NoOptions]

\* fetch(imageRequest, options): a fetch that carries { cf: { image } }.
FetchWith(url, options) == [op |-> "fetch", key |-> <<>>, url |-> url, options |-> options]

\* Request headers read with headers.get: null when absent.
NoHeader == [present |-> FALSE, value |-> ""]
Header(v) == [present |-> TRUE, value |-> v]

\* Answers of an outbound fetch: it rejects (transport failure), or resolves
\* to a response with a status and a body that is JSON {success: true},
\* JSON {success: false, errors}, or not JSON at all.
NoAnswer == [kind |-> "none", status |-> 0, json |-> "none"]
FetchRejected == [kind |-> "rejected", status |-> 0, json |-> "none"]
FetchResolved(status, json) == [kind |-> "response", status |-> status, json |-> json]

\* Response.ok
ResponseOk(status) == status \in 200..299

-----------------------------------------------------------------------------
(* The handlers.  Each takes the request and the bucket and yields what it *)
(* leaves behind: the bucket, the response or the exception, the calls.    *)
(* Response texts are the code's, without their backquotes and quotes; a   *)
(* text built from the path holds <path> and the response carries the path.*)

\* Faulty variant: contentType is not required and empty strings pass.
handleUploadNoFieldCheck(request, bucket) ==
    IF ~isAuthorized(request)
    THEN Returned(bucket, TextResponse("Unauthorized", 401, <<>>), <<>>)
    ELSE IF request.ctype # Header("application/json")
    THEN Returned(bucket, TextResponse("Content-Type must be application/json", 400, <<>>), <<>>)
    ELSE IF request.body.kind = "invalid"
    THEN Returned(bucket, TextResponse("Invalid JSON body", 400, <<>>), <<>>)
    ELSE IF request.body.kind = "null"
    THEN Thrown(bucket, <<>>)
    ELSE IF request.body.path.t # "string" \/ request.body.fileBase64.t # "string"
    THEN Returned(bucket,
            TextResponse("Missing path, contentType, or fileBase64 in body", 400, <<>>),
            <<>>)
    ELSE LET decoded == Atob(request.body.fileBase64.s)
         IN  IF ~decoded.ok THEN Thrown(bucket, <<>>)
             ELSE Returned(
                    [bucket EXCEPT ![request.body.path.s] =
                        PutObject(Uint8ArrayFrom(decoded.chars), request.body.contentType.s)],
                    TextResponse("Uploaded <path> successfully", 201, request.body.path.s),
                    <<Call("put", request.body.path.s, "")>>)

handleUpload(request, bucket) ==
    IF ~isAuthorized(request)
    THEN Returned(bucket, TextResponse("Unauthorized", 401, <<>>), <<>>)
    ELSE IF request.ctype # Header("application/json")
    THEN Returned(bucket, TextResponse("Content-Type must be application/json", 400, <<>>), <<>>)
    ELSE IF request.body.kind = "invalid"          \* request.json() rejected
    THEN Returned(bucket, TextResponse("Invalid JSON body", 400, <<>>), <<>>)
    ELSE IF request.body.kind = "null"             \* destructuring null: TypeError
    THEN Thrown(bucket, <<>>)
    ELSE LET path == request.body.path
             contentType == request.body.contentType
             fileBase64 == request.body.fileBase64
         IN  IF ~Truthy(path) \/ ~Truthy(contentType) \/ ~Truthy(fileBase64)
             THEN Returned(bucket,
                    TextResponse("Missing path, contentType, or fileBase64 in body", 400, <<>>),
                    <<>>)
             ELSE LET decoded == Atob(fileBase64.s)
                  IN  IF ~decoded.ok               \* atob: InvalidCharacterError
                      THEN Thrown(bucket, <<>>)
                      ELSE Returned(
                             [bucket EXCEPT ![path.s] =
                                 PutObject(Uint8ArrayFrom(decoded.chars), contentType.s)],
                             TextResponse("Uploaded <path> successfully", 201, path.s),
                             <<Call("put", path.s, "")>>)

\* Faulty variant: the object is deleted without being looked up first.
handleDeleteNoLookup(request, bucket) ==
    IF ~isAuthorized(request)
    THEN Returned(bucket, JsonResponse("false", "Unauthorized", 401, <<>>), <<>>)
    ELSE IF request.body.kind = "invalid"
    THEN Returned(bucket, JsonResponse("false", "Invalid JSON body", 400, <<>>), <<>>)
    ELSE IF request.body.kind = "null"
    THEN Thrown(bucket, <<>>)
    ELSE IF ~Truthy(request.body.path)
    THEN Returned(bucket, JsonResponse("false", "Missing path field in body", 400, <<>>), <<>>)
    ELSE Returned([bucket EXCEPT ![request.body.path.s] = NoObject],
                  JsonResponse("true", "", 200, request.body.path.s),
                  <<Call("delete", request.body.path.s, "")>>)

handleDelete(request, bucket) ==
    IF ~isAuthorized(request)
    THEN Returned(bucket, JsonResponse("false", "Unauthorized", 401, <<>>), <<>>)
    ELSE IF request.body.kind = "invalid"
    THEN Returned(bucket, JsonResponse("false", "Invalid JSON body", 400, <<>>), <<>>)
    ELSE IF request.body.kind = "null"
    THEN Thrown(bucket, <<>>)
    ELSE LET path == request.body.path
         IN  IF ~Truthy(path)
             THEN Returned(bucket,
                    JsonResponse("false", "Missing path field in body", 400, <<>>), <<>>)
             ELSE IF ~bucket[path.s].present       \* MEDIA_BUCKET.get(path) is null
             THEN Returned(bucket,
                    JsonResponse("false", "File <path> not found in bucket", 404, path.s),
                    <<Call("get", path.s, "")>>)
             ELSE Returned([bucket EXCEPT ![path.s] = NoObject],
                    JsonResponse("true", "", 200, path.s),
                    <<Call("get", path.s, ""), Call("delete", path.s, "")>>)

\* 'https://'
HttpsScheme == <<104, 116, 116, 112, 115, 58, 47, 47>>

\* new URL(s).toString() for an https URL of a host and an optional path:
\* it throws (ok = FALSE) unless s is absolute with a host, and the
\* serialization gives a URL without a path the path "/".
ParseUrl(s) ==
    IF ~StartsWith(s, HttpsScheme) \/ Len(s) < 9 \/ s[9] = 47
    THEN [ok |-> FALSE, href |-> <<>>]
    ELSE IF \E i \in 9..Len(s) : s[i] = 47
    THEN [ok |-> TRUE, href |-> s]
    ELSE [ok |-> TRUE, href |-> s \o <<47>>]

PurgeApi == "https://api.cloudflare.com/client/v4/zones/<ZONE_ID>/purge_cache"

handlePurge(request, bucket, api) ==
    IF ~isAuthorized(request)
    THEN Returned(bucket, TextResponse("Unauthorized", 401, <<>>), <<>>)
    ELSE IF request.body.kind = "invalid"
    THEN Returned(bucket, TextResponse("Invalid JSON body", 400, <<>>), <<>>)
    ELSE IF request.body.kind = "null"
    THEN Thrown(bucket, <<>>)
    ELSE LET targetUrlStr == request.body.url
         IN  IF ~Truthy(targetUrlStr)
             THEN Returned(bucket, TextResponse("Missing url field in body", 400, <<>>), <<>>)
             ELSE LET parsed == ParseUrl(targetUrlStr.s)
                      issued == <<Call("fetch", parsed.href, PurgeApi)>>
                  IN  IF ~parsed.ok
                      THEN Returned(bucket, TextResponse("Invalid url field", 400, <<>>), <<>>)
                      ELSE IF api.kind = "rejected"     \* await fetch(...) rejects
                      THEN Thrown(bucket, issued)
                      ELSE IF api.json = "none"         \* await purgeRes.json() rejects
                      THEN Thrown(bucket, issued)
                      ELSE IF ~ResponseOk(api.status) \/ api.json # "success"
                      THEN Returned(bucket,
                             TextResponse("Failed to purge: <errors>", 500, <<>>), issued)
                      ELSE Returned(bucket, JsonResponse("true", "", 200, parsed.href), issued)

\* https://media.arroweffect.com${path}
ImageUrl(pathname) == "https://media.arroweffect.com" \o pathname

\* Faulty variant: an upstream 404 is passed through like any other status.
handleFetchAndTransformNo404Case(request, bucket, origin) ==
    LET issued == <<FetchWith(ImageUrl(request.pathname), CfImage(ImageOptions(request)))>>
    IN  IF origin.kind = "rejected"
        THEN Thrown(bucket, issued)
        ELSE Returned(bucket,
               [status |-> origin.status, text |-> "<upstream body>", contentType |-> "",
                cacheControl |-> "public, max-age=31536000, stale-while-revalidate=86400",
                success |-> "none", path |-> <<>>],
               issued)

handleFetchAndTransform(request, bucket, origin) ==
    LET issued == <<FetchWith(ImageUrl(request.pathname), CfImage(ImageOptions(request)))>>
    IN  IF origin.kind = "rejected"                \* await fetch(...) rejects
        THEN Thrown(bucket, issued)
        ELSE IF origin.status = 404
        THEN Returned(bucket,
               [status |-> 404, text |-> "Image not found", contentType |-> "",
                cacheControl |-> "public, max-age=60", success |-> "none", path |-> <<>>],
               issued)
        ELSE Returned(bucket,
               [status |-> origin.status, text |-> "<upstream body>", contentType |-> "",
                cacheControl |-> "public, max-age=31536000, stale-while-revalidate=86400",
                success |-> "none", path |-> <<>>],
               issued)

\* Faulty variant: the method is not looked at.
RouteIgnoresMethod(request) ==
    IF request.pathname = "/upload" THEN "upload"
    ELSE IF request.pathname = "/purge" THEN "purge"
    ELSE IF request.pathname = "/delete" THEN "delete"
    ELSE "image"

\* The router of the Worker's fetch entry point.
Route(request) ==
    IF request.pathname = "/upload" /\ request.method = "POST" THEN "upload"
    ELSE IF request.pathname = "/purge" /\ request.method = "POST" THEN "purge"
    ELSE IF request.pathname = "/delete" /\ request.method = "POST" THEN "delete"
    ELSE "image"

-----------------------------------------------------------------------------
(* The requests the environment sends and the answers outbound calls get.  *)

\* Values of the Authorization header: absent, empty, and, as text,
\* "Bearer sk" (the secret), "Bearer sx", "Bearer s", "Bearer sks",
\* "bearer sk", "BEARER sk", "Basic sk", "Bearersk", "Bearer  sk", "sk".
CorrectAuth == Str(BearerPrefix \o IMAGE_API_SECRET.s)

AuthHeaders ==
    {Null, Str(<<>>), CorrectAuth,
     Str(BearerPrefix \o <<115, 120>>),
     Str(BearerPrefix \o <<115>>),
     Str(BearerPrefix \o <<115, 107, 115>>),
     Str(<<98, 101, 97, 114, 101, 114, 32, 115, 107>>),
     Str(<<66, 69, 65, 82, 69, 82, 32, 115, 107>>),
     Str(<<66, 97, 115, 105, 99, 32, 115, 107>>),
     Str(<<66, 101, 97, 114, 101, 114, 115, 107>>),
     Str(BearerPrefix \o <<32, 115, 107>>),
     Str(<<115, 107>>)}

ContentTypeHeaders ==
    {NoHeader, Header("application/json"), Header("application/json; charset=utf-8"),
     Header("text/plain")}

\* Storage keys: "a.b" (valid) and "../a" (rejected by the Path Validator).
ValidKey == <<97, 46, 98>>
InvalidKey == <<46, 46, 47, 97>>
Keys == {ValidKey, InvalidKey}

\* File contents and their base64 text; "/w" is base64 of the byte 255
\* without its padding, " /w=\n=" the same with whitespace in it; "A" and
\* "/w=!" are not base64.
FileBodies == {<<255>>, <<77, 0>>, <<0, 128, 255>>}
ValidBase64 ==
    {Base64Encode(b) : b \in FileBodies} \cup {<<47, 119>>, <<32, 47, 119, 61, 10, 61>>}
InvalidBase64 == {<<65>>, <<47, 119, 61, 33>>}

\* "image/png", "image/jpeg"
MimeTypes ==
    {<<105, 109, 97, 103, 101, 47, 112, 110, 103>>,
     <<105, 109, 97, 103, 101, 47, 106, 112, 101, 103>>}

\* "https://a/x", "https://a" (absolute) and "a.jpg", "https:///x" (not).
UrlStrings ==
    {HttpsScheme \o <<97, 47, 120>>, HttpsScheme \o <<97>>,
     <<97, 46, 106, 112, 103>>, HttpsScheme \o <<47, 120>>}

\* What request.json() yields: it rejects ("invalid": empty or malformed
\* body), or resolves to null, to a primitive or array (none of the fields
\* exists on it), or to an object with some of the fields.
Body(kind, path, contentType, fileBase64, url) ==
    [kind |-> kind, path |-> path, contentType |-> contentType,
     fileBase64 |-> fileBase64, url |-> url]

NoFields(kind) == Body(kind, Undefined, Undefined, Undefined, Undefined)

OtherBodies == {NoFields("invalid"), NoFields("null"), NoFields("primitive")}

Falsy == {Undefined, Null, Str(<<>>), Num(0)}

UploadBodies ==
    OtherBodies \cup
    {Body("object", p, c, f, Undefined) :
        p \in {Undefined, Str(<<>>)} \cup {Str(k) : k \in Keys},
        c \in {Undefined, Null} \cup {Str(m) : m \in MimeTypes},
        f \in {Undefined, Num(0)} \cup {Str(b) : b \in ValidBase64 \cup InvalidBase64}}

\* Upload bodies in which each field is either absent or well-formed.
PlainUploadBodies ==
    OtherBodies \cup
    {Body("object", p, c, f, Undefined) :
        p \in {Undefined, Str(ValidKey)},
        c \in {Undefined, Str(<<105, 109, 97, 103, 101, 47, 112, 110, 103>>)},
        f \in {Undefined, Str(Base64Encode(<<255>>))}}

DeleteBodies ==
    OtherBodies \cup
    {Body("object", p, Undefined, Undefined, Undefined) :
        p \in Falsy \cup {Str(k) : k \in Keys}}

PurgeBodies ==
    OtherBodies \cup
    {Body("object", Undefined, Undefined, Undefined, u) :
        u \in Falsy \cup {Str(s) : s \in UrlStrings}}

Methods == {"GET", "POST", "DELETE"}
Pathnames == {"/upload", "/purge", "/delete", "/upload/", "/a.jpg", "/a.svg"}

\* A request without a query string and without an Accept header.
Request(method, pathname, auth, ctype, body) ==
    [method |-> method, pathname |-> pathname, auth |-> auth,
     ctype |-> ctype, body |-> body, query |-> <<>>, accept |-> Null]

\* One entry of url.searchParams: a key and its (decoded) value.
Entry(key, value) == [key |-> key, value |-> value]

\* A GET for an image, with its query entries and its Accept header.
ImageRequest(pathname, query, accept) ==
    [method |-> "GET", pathname |-> pathname, auth |-> Null, ctype |-> NoHeader,
     body |-> NoFields("invalid"), query |-> query, accept |-> accept]

\* Accept headers: absent, "image/avif,image/webp,*/*", "image/webp,*/*",
\* "image/png", "text/html", "IMAGE/WEBP".
AcceptHeaders ==
    {Null, Str(<<105, 109, 97, 103, 101, 47, 97, 118, 105, 102, 44, 105, 109, 97, 103, 101, 47, 119, 101, 98, 112, 44, 42, 47, 42>>), Str(<<105, 109, 97, 103, 101, 47, 119, 101, 98, 112, 44, 42, 47, 42>>), Str(<<105, 109, 97, 103, 101, 47, 112, 110, 103>>), Str(<<116, 101, 120, 116, 47, 104, 116, 109, 108>>), Str(<<73, 77, 65, 71, 69, 47, 87, 69, 66, 80>>)}

\* Image requests of the worker as a whole: ?width=8&quality=80 and
\* ?width=&foo=8 on a raster and on an SVG path.
ImageRequests ==
    {ImageRequest(n, q, a) :
        n \in {"/a.jpg", "/a.svg"},
        q \in {<<Entry("width", <<56>>), Entry("quality", <<56, 48>>)>>,
               <<Entry("width", <<>>), Entry("foo", <<56>>)>>},
        a \in {Null, Str(<<105, 109, 97, 103, 101, 47, 119, 101, 98, 112, 44, 42, 47, 42>>)}}

\* A complete upload body, delete body and purge body.
GoodBody ==
    [n \in {"/upload", "/delete", "/purge"} |->
        CASE n = "/upload" ->
               Body("object", Str(ValidKey), Str(<<105, 109, 97, 103, 101, 47, 112, 110, 103>>),
                    Str(Base64Encode(<<255>>)), Undefined)
          [] n = "/delete" -> Body("object", Str(ValidKey), Undefined, Undefined, Undefined)
          [] n = "/purge" ->
               Body("object", Undefined, Undefined, Undefined, Str(HttpsScheme \o <<97>>))]

\* Every method on every path, without credentials and with them (and a
\* complete body on the admin paths); every Authorization value on the
\* three admin endpoints; an authorized POST /upload with every body, and
\* with each other Content-Type; an authorized POST /delete and POST /purge
\* with every body.
Requests ==
    {Request(m, n, Null, NoHeader, NoFields("invalid")) : m \in Methods, n \in Pathnames}
    \cup {Request(m, n, CorrectAuth, Header("application/json"),
                  IF n \in DOMAIN GoodBody THEN GoodBody[n] ELSE NoFields("invalid")) :
            m \in Methods, n \in Pathnames}
    \cup {Request("POST", n, a, Header("application/json"), GoodBody[n]) :
            n \in DOMAIN GoodBody, a \in AuthHeaders}
    \cup {Request("POST", "/upload", CorrectAuth, Header("application/json"), b) :
            b \in UploadBodies}
    \cup {Request("POST", "/upload", CorrectAuth, c, b) :
            c \in ContentTypeHeaders, b \in PlainUploadBodies}
    \cup {Request("POST", "/delete", CorrectAuth, Header("application/json"), b) :
            b \in DeleteBodies}
    \cup {Request("POST", "/purge", CorrectAuth, Header("application/json"), b) :
            b \in PurgeBodies}
    \cup ImageRequests

\* Answers of the cache-purge API and of the image origin.
PurgeAnswers ==
    {FetchRejected, FetchResolved(200, "success"), FetchResolved(200, "failure"),
     FetchResolved(200, "none"), FetchResolved(403, "failure")}

OriginAnswers ==
    {FetchRejected} \cup
    {FetchResolved(s, "none") : s \in {200, 401, 404, 500}}

-----------------------------------------------------------------------------
(* The Worker as a state machine: one action per handler, each taken for   *)
(* the requests the router sends to it.                                    *)

EmptyBucket == [k \in Keys |-> NoObject]

Init ==
    /\ store = EmptyBucket
    /\ req = Request("GET", "/a.jpg", Null, NoHeader, NoFields("invalid"))
    /\ handler = "none"
    /\ resp = NoResponse
    /\ outcome = "idle"
    /\ calls = <<>>
    /\ upstream = NoAnswer
    /\ vpInput = Undefined
    /\ vpResult = "none"

Handled(request, name, left, answer) ==
    /\ req' = request
    /\ handler' = name
    /\ store' = left.store
    /\ resp' = left.resp
    /\ outcome' = left.outcome
    /\ calls' = left.calls
    /\ upstream' = IF left.calls # <<>> /\ left.calls[Len(left.calls)].op = "fetch"
                   THEN answer ELSE NoAnswer
    /\ UNCHANGED <<vpInput, vpResult>>

Upload ==
    \E request \in Requests :
        /\ Route(request) = "upload"
        /\ Handled(request, "upload", handleUpload(request, store), NoAnswer)

Delete ==
    \E request \in Requests :
        /\ Route(request) = "delete"
        /\ Handled(request, "delete", handleDelete(request, store), NoAnswer)

Purge ==
    \E request \in Requests, api \in PurgeAnswers :
        /\ Route(request) = "purge"
        /\ Handled(request, "purge", handlePurge(request, store, api), api)

FetchAndTransform ==
    \E request \in Requests, origin \in OriginAnswers :
        /\ Route(request) = "image"
        /\ Handled(request, "image", handleFetchAndTransform(request, store, origin), origin)

Next == Upload \/ Delete \/ Purge \/ FetchAndTransform

Spec == Init /\ [][Next]_vars

-----------------------------------------------------------------------------
(* The Path Validator on its own: every value of a bounded set is handed   *)
(* to isValidPath once.                                                    *)

MaxPathLen == 3

\* "a", "/", ".", TAB, NUL, US (0x1F), space (0x20)
PathAlphabet == {97, 47, 46, 9, 0, 31, 32}

PathStrings == UNION {[1..n -> PathAlphabet] : n \in 0..MaxPathLen}

PathInputs == {Null, Undefined, Num(123), Num(0)} \cup {Str(s) : s \in PathStrings}

InitPath ==
    /\ store = EmptyBucket
    /\ req = Request("GET", "/a.jpg", Null, NoHeader, NoFields("invalid"))
    /\ handler = "none"
    /\ resp = NoResponse
    /\ outcome = "idle"
    /\ calls = <<>>
    /\ upstream = NoAnswer
    /\ vpInput \in PathInputs
    /\ vpResult = "none"

Validate ==
    /\ vpResult = "none"
    /\ vpResult' = IF isValidPath(vpInput) THEN "true" ELSE "false"
    /\ UNCHANGED <<store, req, handler, resp, outcome, calls, upstream, vpInput>>

NextPath == Validate

SpecPath == InitPath /\ [][NextPath]_vars

-----------------------------------------------------------------------------
(* The Image Option Mapper on its own: one image request, drawn from every *)
(* query of up to MaxQueryLen entries and every Accept header, is served.  *)

MaxQueryLen == 2

MaxValueLen == 2

QueryKeys == {"width", "fit", "format", "foo"}

\* "8", "a", " "
ValueAlphabet == {56, 97, 32}

\* Every short value, and "Infinity", "-Infinity", "-8", "800".
QueryValues ==
    UNION {[1..n -> ValueAlphabet] : n \in 0..MaxValueLen}
    \cup {<<73, 110, 102, 105, 110, 105, 116, 121>>, <<45>> \o <<73, 110, 102, 105, 110, 105, 116, 121>>,
          <<45, 56>>, <<56, 48, 48>>}

QueryEntries == {Entry(k, v) : k \in QueryKeys, v \in QueryValues}

Queries == UNION {[1..n -> QueryEntries] : n \in 0..MaxQueryLen}

OptionRequests == {ImageRequest("/a.jpg", q, a) : q \in Queries, a \in AcceptHeaders}

InitOptions ==
    /\ store = EmptyBucket
    /\ req \in OptionRequests
    /\ handler = "none"
    /\ resp = NoResponse
    /\ outcome = "idle"
    /\ calls = <<>>
    /\ upstream = NoAnswer
    /\ vpInput = Undefined
    /\ vpResult = "none"

Serve ==
    \E origin \in OriginAnswers :
        /\ handler = "none"
        /\ Route(req) = "image"
        /\ Handled(req, "image", handleFetchAndTransform(req, store, origin), origin)

NextOptions == Serve

SpecOptions == InitOptions /\ [][NextOptions]_vars

-----------------------------------------------------------------------------
(* Properties.                                                             *)

AdminHandlers == {"upload", "purge", "delete"}

BucketOps == {"get", "put", "delete"}

CallsOf(ops) == {i \in 1..Len(calls) : calls[i].op \in ops}

MentionsInvalid(text) == text \in {"Invalid JSON body", "Invalid url field", "Invalid path"}

LongLived == "public, max-age=31536000, stale-while-revalidate=86400"

\* The request is an authorized upload or delete that names a key.
NamesKey ==
    /\ req.auth = CorrectAuth
    /\ req.body.kind = "object"
    /\ req.body.path.t = "string"
    /\ req.body.path.s # <<>>
    /\ \/ handler = "delete"
       \/ /\ handler = "upload"
          /\ req.ctype = Header("application/json")
          /\ Truthy(req.body.contentType)
          /\ Truthy(req.body.fileBase64)

\* C1: an authorized, well-formed upload or delete whose path fails the Path
\* Validator is answered 400 with a text containing "Invalid" (success:false
\* for delete) and issues neither put nor delete.
C1_InvalidPathNeverMutates ==
    (/\ NamesKey
     /\ handler = "upload" => Atob(req.body.fileBase64.s).ok
     /\ ~isValidPath(req.body.path)) =>
        /\ outcome = "response"
        /\ resp.status = 400
        /\ MentionsInvalid(resp.text)
        /\ handler = "delete" => resp.success = "false"
        /\ CallsOf({"put", "delete"}) = {}

\* C2: on the three admin endpoints the request gets past authentication
\* (is not answered 401) exactly when Authorization is "Bearer " followed by
\* the secret; every other value is answered 401 with no bucket call and no
\* purge call.
C2_OnlyBearerSecretPassesAuth ==
    handler \in AdminHandlers =>
        IF req.auth = Str(<<66, 101, 97, 114, 101, 114, 32>> \o IMAGE_API_SECRET.s)
        THEN ~(outcome = "response" /\ resp.status = 401)
        ELSE /\ outcome = "response"
             /\ resp.status = 401
             /\ calls = <<>>
             /\ upstream = NoAnswer

\* A wrong-case prefix, a wrong token and another scheme have each been
\* turned away on an admin endpoint while an object was in the bucket.
C2_Witness ==
    /\ handler \in AdminHandlers
    /\ req.auth \in {Str(<<98, 101, 97, 114, 101, 114, 32, 115, 107>>),
                     Str(<<66, 97, 115, 105, 99, 32, 115, 107>>),
                     Str(BearerPrefix \o <<115, 107, 115>>)}
    /\ resp.status = 401
    /\ store[ValidKey].present

\* C3: isValidPath always yields a boolean; it yields false for what is not
\* a non-empty string, for a string that starts with "/" or ".", that
\* contains ".." or "//", or that contains a code point below 0x20, and
\* true for every other non-empty string.
C3_IsValidPathRules ==
    vpResult # "none" =>
        LET s == vpInput.s
            nonEmptyString == vpInput.t = "string" /\ Len(s) > 0
            badStart == Len(s) > 0 /\ (s[1] = 47 \/ s[1] = 46)
            dotDot == \E i \in 1..Len(s), j \in 1..Len(s) : j = i + 1 /\ s[i] = 46 /\ s[j] = 46
            slashSlash == \E i \in 1..Len(s), j \in 1..Len(s) : j = i + 1 /\ s[i] = 47 /\ s[j] = 47
            control == \E i \in 1..Len(s) : s[i] < 32
        IN  /\ vpResult \in {"true", "false"}
            /\ ~nonEmptyString => vpResult = "false"
            /\ badStart => vpResult = "false"
            /\ dotDot \/ slashSlash => vpResult = "false"
            /\ control => vpResult = "false"
            /\ (nonEmptyString /\ ~badStart /\ ~dotDot /\ ~slashSlash /\ ~control)
                   => vpResult = "true"

\* "a<US>" (a control character after a letter) has been rejected.
C3_Witness ==
    /\ vpInput = Str(<<97, 31>>)
    /\ vpResult = "false"

\* C4: an authorized delete of a valid path K present in the store is
\* answered 200 {success:true, deleted:K} and leaves K absent (and every
\* other key as it was); if K is absent it is answered 404 {success:false},
\* no delete is issued and the store is unchanged.
C4_DeleteStep ==
    (/\ handler' = "delete"
     /\ req'.auth = CorrectAuth
     /\ req'.body.kind = "object"
     /\ isValidPath(req'.body.path))
    => LET K == req'.body.path.s
       IN  IF store[K].present
           THEN /\ outcome' = "response"
                /\ resp'.status = 200
                /\ resp'.success = "true"
                /\ resp'.path = K
                /\ ~store'[K].present
                /\ \A k \in Keys \ {K} : store'[k] = store[k]
           ELSE /\ outcome' = "response"
                /\ resp'.status = 404
                /\ resp'.success = "false"
                /\ \A i \in 1..Len(calls') : calls'[i].op # "delete"
                /\ store' = store

C4_Delete == [][C4_DeleteStep]_vars

\* The valid key has been deleted (200) while the other object stayed.
C4_Witness ==
    /\ handler = "delete"
    /\ req.body.path = Str(ValidKey)
    /\ resp.status = 200
    /\ ~store[ValidKey].present
    /\ store[InvalidKey].present

\* C5: after a 201 upload of the base64 text of bytes B to key K, the
\* object under K is exactly B with the supplied contentType, whatever was
\* under K before.
C5_UploadStep ==
    (handler' = "upload" /\ outcome' = "response" /\ resp'.status = 201)
    => \A B \in FileBodies :
          req'.body.fileBase64 = Str(Base64Encode(B)) =>
              /\ store'[req'.body.path.s].present
              /\ store'[req'.body.path.s].body = B
              /\ store'[req'.body.path.s].contentType = req'.body.contentType.s

C5_RoundTrip == [][C5_UploadStep]_vars

\* The three-byte file 00 80 FF has been uploaded as image/jpeg.
C5_Witness ==
    /\ handler = "upload"
    /\ resp.status = 201
    /\ req.body.fileBase64 = Str(Base64Encode(<<0, 128, 255>>))
    /\ store[ValidKey].body = <<0, 128, 255>>
    /\ store[ValidKey].contentType = <<105, 109, 97, 103, 101, 47, 106, 112, 101, 103>>

\* C6: every non-2xx response of the image-serving handler carries
\* Cache-Control: no-store; only 2xx responses carry the long-lived value.
C6_ErrorsNeverCached ==
    (handler = "image" /\ outcome = "response") =>
        IF ResponseOk(resp.status)
        THEN resp.cacheControl = LongLived
        ELSE resp.cacheControl = "no-store"

C8_EveryRequestEndsInResponse ==
    handler # "none" =>
        /\ outcome = "response"
        /\ (handler = "purge" /\ upstream # NoAnswer
                /\ (upstream.kind = "rejected" \/ upstream.json = "none"))
              => resp.status = 500
        /\ (handler \in AdminHandlers /\ req.auth = CorrectAuth
                /\ (handler = "upload" => req.ctype = Header("application/json"))
                /\ req.body.kind = "null")
              => resp.status = 400
        /\ (handler = "upload" /\ NamesKey /\ ~Atob(req.body.fileBase64.s).ok)
              => resp.status >= 400
        /\ (handler = "image" /\ upstream.kind = "rejected") => resp.status >= 400

RoutedAsStated ==
    /\ handler' \in AdminHandlers \cup {"image"}
    /\ handler' = "upload" <=> (req'.method = "POST" /\ req'.pathname = "/upload")
    /\ handler' = "purge" <=> (req'.method = "POST" /\ req'.pathname = "/purge")
    /\ handler' = "delete" <=> (req'.method = "POST" /\ req'.pathname = "/delete")
    /\ handler' = "image" <=>
          ~(req'.method = "POST" /\ req'.pathname \in {"/upload", "/purge", "/delete"})

TransformFailed ==
    \/ upstream.kind = "rejected"
    \/ upstream.kind = "response" /\ upstream.status >= 500

SvgPathnames == {"/a.svg"}

\* C11: when the transformation request fails the image-serving handler
\* retries exactly once, fetching the untransformed image from the origin
\* URL, and serves that; it never makes more than one retry; a path ending
\* in .svg is fetched from the origin with no transformation options.
C11_OriginFallback ==
    handler = "image" =>
        /\ Len(calls) \in {1, 2}
        /\ req.pathname \in SvgPathnames =>
              calls = <<FetchWith(ImageUrl(req.pathname), NoOptions)>>
        /\ (req.pathname \notin SvgPathnames /\ TransformFailed) =>
              /\ Len(calls) = 2
              /\ calls[1].options.cf
              /\ calls[2] = FetchWith(ImageUrl(req.pathname), NoOptions)
              /\ outcome = "response"

\* The claim's reading of "parses as a finite number": a non-blank value
\* that is an optionally signed run of decimal digits (blanks around it
\* aside); an empty or blank value and Infinity are not.
ParsesAsFiniteNumber(v) ==
    LET inner == {i \in 1..Len(v) : v[i] # 32}
    IN  /\ inner # {}
        /\ \A i \in 1..Len(v) :
              (\E j \in inner : j <= i) /\ (\E j \in inner : j >= i) =>
                  \/ v[i] \in 48..57
                  \/ v[i] \in {43, 45} /\ (\A j \in inner : j >= i)
                        /\ (\E j \in inner : j > i)

\* The number such a value denotes.
FiniteNumberOf(v) ==
    LET digits == SelectSeq(v, LAMBDA c : c \in 48..57)
        negative == \E i \in 1..Len(v) : v[i] = 45
    IN  Num((IF negative THEN -1 ELSE 1) * DigitsValue(digits))

\* The last value the query gives for key k.
LastValue(query, k) ==
    query[CHOOSE i \in 1..Len(query) :
              /\ query[i].key = k
              /\ \A j \in 1..Len(query) : query[j].key = k => j <= i].value

\* C12: the options sent upstream hold, for each allow-listed key of the
\* query, one entry that is a number if and only if the raw value parses as
\* a finite number and the raw string otherwise (an empty value and Infinity
\* stay strings), no entry for any other key, and format: avif if Accept
\* contains image/avif, else webp if it contains image/webp, else jpeg,
\* never a format from the query.
C12_OptionsAsStated ==
    handler = "image" =>
        LET sent == calls[1].options
            accept == IF req.accept = Null THEN <<>> ELSE req.accept.s
        IN  /\ sent.cf
            /\ \A k \in allowedParams :
                  IF \E i \in 1..Len(req.query) : req.query[i].key = k
                  THEN LET v == LastValue(req.query, k)
                       IN  sent.image[k] =
                              IF ParsesAsFiniteNumber(v) THEN FiniteNumberOf(v) ELSE Str(v)
                  ELSE sent.image[k] = Undefined
            /\ sent.image["format"] =
                  IF Contains(accept, <<105, 109, 97, 103, 101, 47, 97, 118, 105, 102>>) THEN Str(<<97, 118, 105, 102>>)
                  ELSE IF Contains(accept, <<105, 109, 97, 103, 101, 47, 119, 101, 98, 112>>) THEN Str(<<119, 101, 98, 112>>)
                  ELSE Str(<<106, 112, 101, 103>>)

====
